---- MODULE Spec2Model ----
(***************************************************************************)
(* BingoCoin (src/bingocoin.py): the in-memory economy engine and the      *)
(* WebSocket fan-out of its state.                                         *)
(*                                                                         *)
(* GAME is the module-level dictionary of the program.  Every HTTP handler *)
(* is an operator from (GAME, request) to (GAME', response), translated    *)
(* statement by statement; the handlers run on one asyncio event loop and  *)
(* hold no await before their final "await ws_manager.broadcast()", so the *)
(* mutation phase of each handler is one atomic step.                      *)
(*                                                                         *)
(* Four specifications share the variables:                                *)
(*   - Spec: the engine under every request, valid or not, with no channel *)
(*     connected;                                                          *)
(*   - SpecScenario: the engine under the requests of the worked example;  *)
(*   - SpecFanout: join, credit, reset and logout with WebSocket channels  *)
(*     that connect, authenticate, close and wedge while the broadcasts    *)
(*     run, each await of a send being a point where the event loop may    *)
(*     run another coroutine (the other handlers end in the same call of   *)
(*     broadcast);                                                         *)
(*   - SpecFanoutFair: SpecFanout with the event loop resuming every       *)
(*     broadcast whose send is over.                                       *)
(*                                                                         *)
(* Representation choices:                                                 *)
(*   - a user id (secrets.token_hex(8)) is a positive integer; None and    *)
(*     the empty string (both falsy in the checks of the code) are 0;      *)
(*   - an optional JSON field is <<>> when it is absent and <<v>> when it  *)
(*     is present; a saldo hidden from a viewer (None) is <<>>, a visible  *)
(*     one is <<v>>;                                                       *)
(*   - a JSON number is held in halves (<<3>> is 1.5), so that int() is a  *)
(*     real conversion; <<>> stands for an absent or non-numeric value;    *)
(*   - the "ts" field of the log, ledger and prize entries is left out:    *)
(*     no statement of the program reads it.                               *)
(***************************************************************************)
EXTENDS Integers, Sequences, FiniteSets, TLC

VARIABLES GAME, issued

\* WSManager (ws_manager) and the coroutines that are suspended in it
VARIABLES clients, ws_user, accepted, wedged, tasks

\* What an observer of the channels records, kept for the properties only:
\* the snapshot put on the wire by the last step, the handler that
\* returned in the last step, the identity each channel last claimed and
\* the number of operations committed so far
VARIABLES wire, returned, claimed, version

engine == <<GAME, issued>>
fanout == <<clients, ws_user, accepted, wedged, tasks>>
observed == <<wire, returned, claimed, version>>

vars == <<GAME, issued, clients, ws_user, accepted, wedged, tasks,
          wire, returned, claimed, version>>

-----------------------------------------------------------------------------
(* Bounds of the model *)

\* user ids ever issued by join
MaxIds == 3
\* the lowest balance the cashier is driven to is -MaxDebt
MaxDebt == 2
\* prizes ever defined between two resets
MaxPrizes == 2
\* length kept by add_log (300 in the program)
LogCap == 1
\* length kept by add_ledger_delta (1500 in the program)
LedgerCap == 2
\* length shown by _my_history_public_for (250 in the program)
HistoryCap == 1
\* WebSocket connections ever accepted
MaxChannels == 2
\* handlers suspended in their broadcast at the same time
MaxTasks == 2
\* operations committed while channels are followed
MaxOps == 3

-----------------------------------------------------------------------------
(* Configuration *)

APP_TITLE == "BingoCoin"
CASHIER_PIN == "4321"

None == 0

-----------------------------------------------------------------------------
(* Python built-ins used by the handlers *)

\* s[:n]
Take(s, n) == SubSeq(s, 1, IF Len(s) < n THEN Len(s) ELSE n)

\* str.strip() on the strings the requests carry
strip(s) ==
    CASE s = " " -> ""
      [] s = "Bob " -> "Bob"
      [] s = " cassiere" -> "cassiere"
      [] OTHER -> s

\* str.lower() on the names the requests carry
lower(s) == IF s = "Bob" THEN "bob" ELSE s

\* the place of a lower-case string in lexicographic order
StrRank(s) ==
    CASE s = "" -> 0
      [] s = "ann" -> 1
      [] s = "bob" -> 2
      [] OTHER -> 3

\* dict.get(key, default) on an optional field
dict_get(field, default) == IF field = <<>> THEN default ELSE field[1]

\* int(x): raises on None and on a non-numeric string, truncates a number
\* toward zero
int(raw) ==
    IF raw = <<>> THEN [ok |-> FALSE, v |-> 0]
    ELSE [ok |-> TRUE,
          v |-> IF raw[1] >= 0 THEN raw[1] \div 2 ELSE -((-raw[1]) \div 2)]

\* secrets.token_hex(8): an id no earlier call returned
token_hex(n) == n + 1

RECURSIVE SumAmounts(_)
SumAmounts(s) == IF s = <<>> THEN 0 ELSE s[1].amount + SumAmounts(Tail(s))

\* [p for p in prizes if cond(p)]
RECURSIVE FilterPaid(_, _)
FilterPaid(s, paid) ==
    IF s = <<>> THEN <<>>
    ELSE IF s[1].paid = paid THEN <<s[1]>> \o FilterPaid(Tail(s), paid)
    ELSE FilterPaid(Tail(s), paid)

-----------------------------------------------------------------------------
(* UTIL *)

\* the entry goes to the end, so the cut drops the newest entry
add_log_at_end(G, msg) == [G EXCEPT !.log = Take(G.log \o <<msg>>, LogCap)]

add_log(G, msg) == [G EXCEPT !.log = Take(<<msg>> \o G.log, LogCap)]

ensure_ledger(G, uid) ==
    IF uid \in DOMAIN G.ledger THEN G
    ELSE [G EXCEPT !.ledger = (uid :> <<>>) @@ G.ledger]

add_ledger_delta(G, uid, delta, note) ==
    LET G1 == ensure_ledger(G, uid)
    IN  [G1 EXCEPT !.ledger[uid] =
            Take(<<[delta |-> delta, note |-> note]>> \o G1.ledger[uid], LedgerCap)]

\* a slip in the role string: no participant ever matches
get_cashier_id_wrong_role(G) ==
    LET cs == {u \in DOMAIN G.players : G.players[u].role = "cashier"}
    IN  IF cs = {} THEN None
        ELSE CHOOSE u \in cs : \A w \in cs : u <= w

\* the dictionary is iterated in insertion order, which is the order of issue
get_cashier_id(G) ==
    LET cs == {u \in DOMAIN G.players : G.players[u].role = "cassiere"}
    IN  IF cs = {} THEN None
        ELSE CHOOSE u \in cs : \A w \in cs : u <= w

require_cashier(G, xuser) ==
    IF xuser = None \/ xuser \notin DOMAIN G.players
    THEN [ok |-> FALSE, uid |-> None, err |-> "Non autorizzato"]
    ELSE IF G.players[xuser].role # "cassiere"
    THEN [ok |-> FALSE, uid |-> None, err |-> "Solo cassiere"]
    ELSE [ok |-> TRUE, uid |-> xuser, err |-> ""]

require_player(G, xuser) ==
    IF xuser = None \/ xuser \notin DOMAIN G.players
    THEN [ok |-> FALSE, uid |-> None, err |-> "Non autorizzato"]
    ELSE IF G.players[xuser].role # "giocatore"
    THEN [ok |-> FALSE, uid |-> None, err |-> "Solo giocatore"]
    ELSE [ok |-> TRUE, uid |-> xuser, err |-> ""]

\* a slip in the filter: the paid prizes are summed instead of the unpaid ones
total_prizes_defined_unpaid_paid(G) == SumAmounts(FilterPaid(G.prizes, TRUE))

total_prizes_defined_unpaid(G) == SumAmounts(FilterPaid(G.prizes, FALSE))

total_prizes_paid(G) == SumAmounts(FilterPaid(G.prizes, TRUE))

-----------------------------------------------------------------------------
(* PRIVACY / STATE EXPORT *)

\* out.sort(key=lambda x: x["name"].lower()): a stable sort of the items,
\* which are built in insertion order
name_key(G, uid) == StrRank(lower(G.players[uid].name))

RECURSIVE SortedIds(_, _)
SortedIds(G, ids) ==
    IF ids = {} THEN <<>>
    ELSE LET first == CHOOSE u \in ids : \A w \in ids :
                          \/ name_key(G, u) < name_key(G, w)
                          \/ name_key(G, u) = name_key(G, w) /\ u <= w
         IN  <<first>> \o SortedIds(G, ids \ {first})

\* the saldo is shown to every registered viewer
_players_public_for_any_viewer(G, viewer_id) ==
    LET viewer_role == IF viewer_id # None /\ viewer_id \in DOMAIN G.players
                       THEN G.players[viewer_id].role ELSE "None"
        item(uid) ==
            [id |-> uid,
             name |-> G.players[uid].name,
             role |-> G.players[uid].role,
             saldo |-> IF viewer_role # "None" THEN <<G.players[uid].saldo>>
                       ELSE <<>>]
        order == SortedIds(G, DOMAIN G.players)
    IN  [i \in 1..Len(order) |-> item(order[i])]

_players_public_for(G, viewer_id) ==
    LET viewer_role == IF viewer_id # None /\ viewer_id \in DOMAIN G.players
                       THEN G.players[viewer_id].role ELSE "None"
        item(uid) ==
            [id |-> uid,
             name |-> G.players[uid].name,
             role |-> G.players[uid].role,
             saldo |-> IF viewer_role = "cassiere" THEN <<G.players[uid].saldo>>
                       ELSE IF viewer_id # None /\ uid = viewer_id
                            THEN <<G.players[uid].saldo>>
                            ELSE <<>>]
        order == SortedIds(G, DOMAIN G.players)
    IN  [i \in 1..Len(order) |-> item(order[i])]

_my_history_public_for(G, viewer_id) ==
    IF viewer_id = None \/ viewer_id \notin DOMAIN G.players THEN <<>>
    ELSE IF G.players[viewer_id].role # "giocatore" THEN <<>>
    ELSE Take(ensure_ledger(G, viewer_id).ledger[viewer_id], HistoryCap)

\* the unpaid prizes are listed for a viewer who is not registered
public_state_for_prizes_to_anyone(G, viewer_id) ==
    LET role == IF viewer_id # None /\ viewer_id \in DOMAIN G.players
                THEN G.players[viewer_id].role ELSE "None"
        prizes_out == IF role = "cassiere" THEN G.prizes
                      ELSE FilterPaid(G.prizes, FALSE)
        pot == G.pot
        unpaid == total_prizes_defined_unpaid(G)
        pot_remaining == IF pot - unpaid < 0 THEN 0 ELSE pot - unpaid
        pot_block == IF role = "cassiere"
                     THEN [pot |-> pot,
                           prizes_defined_total |-> unpaid,
                           prizes_paid_total |-> total_prizes_paid(G),
                           pot_remaining |-> pot_remaining]
                     ELSE [pot |-> pot]
    IN  [title |-> APP_TITLE,
         players |-> _players_public_for(G, viewer_id),
         my_history |-> _my_history_public_for(G, viewer_id),
         prizes |-> prizes_out,
         pot |-> pot_block,
         log |-> G.log]

public_state_for(G, viewer_id) ==
    LET role == IF viewer_id # None /\ viewer_id \in DOMAIN G.players
                THEN G.players[viewer_id].role ELSE "None"
        prizes_out == IF role = "cassiere" THEN G.prizes
                      ELSE IF role = "giocatore" THEN FilterPaid(G.prizes, FALSE)
                      ELSE <<>>
        pot == G.pot
        unpaid == total_prizes_defined_unpaid(G)
        pot_remaining == IF pot - unpaid < 0 THEN 0 ELSE pot - unpaid
        pot_block == IF role = "cassiere"
                     THEN [pot |-> pot,
                           prizes_defined_total |-> unpaid,
                           prizes_paid_total |-> total_prizes_paid(G),
                           pot_remaining |-> pot_remaining]
                     ELSE [pot |-> pot]
    IN  [title |-> APP_TITLE,
         players |-> _players_public_for(G, viewer_id),
         my_history |-> _my_history_public_for(G, viewer_id),
         prizes |-> prizes_out,
         pot |-> pot_block,
         log |-> G.log]

-----------------------------------------------------------------------------
(* Responses.  A handler returns the state it leaves, the number of ids    *)
(* issued so far, and its response; "broadcast" says whether the handler   *)
(* reached "await ws_manager.broadcast()".  The response goes back to the  *)
(* caller and is not kept by the program.                                  *)

HTMLResponse(G, n, op, text, status_code) ==
    [game |-> G, issued |-> n,
     resp |-> [op |-> op, status |-> status_code, body |-> [text |-> text],
               broadcast |-> FALSE]]

Returned(G, n, op, body) ==
    [game |-> G, issued |-> n,
     resp |-> [op |-> op, status |-> 200, body |-> body, broadcast |-> TRUE]]

LogMsg(text, who, amount) == [msg |-> text, who |-> who, amount |-> amount]

-----------------------------------------------------------------------------
(* WEBSOCKET MANAGER.  A WebSocket object is the number of its connection, *)
(* counted from 1; clients is the list WSManager.clients and ws_user the   *)
(* dictionary WSManager.ws_user.                                           *)

Range(s) == {s[i] : i \in DOMAIN s}

\* list.remove(x): the first occurrence goes, the rest keeps its order
RECURSIVE list_remove(_, _)
list_remove(s, x) ==
    IF s = <<>> THEN <<>>
    ELSE IF s[1] = x THEN Tail(s)
    ELSE <<s[1]>> \o list_remove(Tail(s), x)

\* dict.pop(k, None)
dict_pop(d, k) == [w \in DOMAIN d \ {k} |-> d[w]]
dict_pop_all(d, ks) == [w \in DOMAIN d \ ks |-> d[w]]

\* WSManager.connect, after "await ws.accept()"
connect(cl, users, ws) ==
    [clients |-> Append(cl, ws), ws_user |-> (ws :> None) @@ users]

disconnect(cl, users, ws) ==
    [clients |-> IF ws \in Range(cl) THEN list_remove(cl, ws) ELSE cl,
     ws_user |-> dict_pop(users, ws)]

\* disconnect for each ws of a set, as the last loop of broadcast does
RECURSIVE disconnect_all(_, _, _)
disconnect_all(cl, users, dead) ==
    IF dead = {} THEN [clients |-> cl, ws_user |-> users]
    ELSE LET ws == CHOOSE w \in dead : TRUE
             m == disconnect(cl, users, ws)
         IN  disconnect_all(m.clients, m.ws_user, dead \ {ws})

set_user(G, users, ws, user_id) ==
    (ws :> IF user_id \in DOMAIN G.players THEN user_id ELSE None) @@ users

\* the channel is always sent the anonymous projection
send_state_unbound(G, users, ws) ==
    [ws |-> ws, text |-> public_state_for(G, None)]

\* what send_state hands to ws.send_text: the text is computed before the
\* coroutine is suspended in the send
send_state(G, users, ws) ==
    LET uid == IF ws \in DOMAIN users THEN users[ws] ELSE None
    IN  [ws |-> ws, text |-> public_state_for(G, uid)]

\* the body of the loop of ws_endpoint on a text frame: the binding it
\* leaves and what it sends; a frame that is no JSON object, or has no
\* "auth" key, is passed over
ws_receive(G, users, ws, msg) ==
    IF msg.dict /\ msg.auth # <<>>
    THEN LET bound == set_user(G, users, ws, msg.auth[1])
         IN  [ws_user |-> bound, sent |-> <<send_state(G, bound, ws)>>]
    ELSE [ws_user |-> users, sent |-> <<>>]

\* "for ws in self.clients": the list iterator holds an index into the
\* list and reads the list as it is when the loop comes round again
loop_next(cl, it) == IF it < Len(cl) THEN <<cl[it + 1]>> ELSE <<>>

\* an await stands between the last write to the stores and add_log
at_first_await_before_log(before, after) == [after EXCEPT !.log = before.log]

\* the state the first send_state of a broadcast reads: a handler holds no
\* await between its first write and "await ws_manager.broadcast()", so it
\* is the state the whole mutation leaves
at_first_await(before, after) == after

-----------------------------------------------------------------------------
(* JOIN *)

\* the entry is written anew, as for a first join
join_reentry_fresh_entry(G, existing, name) ==
    add_log([G EXCEPT !.players[existing] =
                 [name |-> name, role |-> "cassiere", saldo |-> 0]],
            LogMsg(<<"Cassiere rientrato">>, <<name>>, 0))

\* the cashier comes back: the existing entry takes the new name
join_reentry(G, existing, name) ==
    add_log([G EXCEPT !.players[existing].name = name],
            LogMsg(<<"Cassiere rientrato">>, <<name>>, 0))

\* a new participant
\* the participant is registered without a ledger
join_new_without_ledger(G, uid, name, role) ==
    LET G1 == [G EXCEPT !.players =
                  (uid :> [name |-> name, role |-> role, saldo |-> 0]) @@ G.players]
    IN  add_log(G1, LogMsg(<<"e' entrato", role>>, <<name>>, 0))

join_new(G, uid, name, role) ==
    LET G1 == [G EXCEPT !.players =
                  (uid :> [name |-> name, role |-> role, saldo |-> 0]) @@ G.players]
        G2 == ensure_ledger(G1, uid)
    IN  add_log(G2, LogMsg(<<"e' entrato", role>>, <<name>>, 0))

join(G, n, data) ==
    LET name == strip(dict_get(data.name, ""))
        role == strip(dict_get(data.role, "giocatore"))
        pin == strip(dict_get(data.pin, ""))
        existing == get_cashier_id(G)
        uid == token_hex(n)
    IN  IF name = "" THEN HTMLResponse(G, n, "join", "Nome mancante", 400)
        ELSE IF role \notin {"giocatore", "cassiere"}
        THEN HTMLResponse(G, n, "join", "Ruolo non valido", 400)
        ELSE IF role = "cassiere" /\ pin # CASHIER_PIN
        THEN HTMLResponse(G, n, "join", "PIN cassiere errato", 403)
        ELSE IF role = "cassiere" /\ existing # None
        THEN Returned(join_reentry(G, existing, name), n, "join",
                      [id |-> existing, name |-> name, role |-> "cassiere"])
        ELSE Returned(join_new(G, uid, name, role), uid, "join",
                      [id |-> uid, name |-> name, role |-> role])

-----------------------------------------------------------------------------
(* PLAYER *)

\* an off-by-one in the comparison
over_saldo_off_by_one(amount, saldo) == amount > saldo + 1

\* the wager is above what the player holds
over_saldo(amount, saldo) == amount > saldo

\* player -X, pot +X
play_effect(G, player_id, amount, saldo) ==
    LET G1 == [G EXCEPT !.players[player_id].saldo = saldo - amount]
        G2 == add_ledger_delta(G1, player_id, -amount, <<"Gioca">>)
        G3 == [G2 EXCEPT !.pot = G2.pot + amount]
    IN  add_log(G3, LogMsg(<<"Montepremi +">>, <<G3.players[player_id].name>>, amount))

player_play(G, n, xuser, data) ==
    LET who == require_player(G, xuser)
        player_id == who.uid
        amount == int(data.amount)
        saldo == G.players[player_id].saldo
        G4 == play_effect(G, player_id, amount.v, saldo)
    IN  IF ~who.ok THEN HTMLResponse(G, n, "play", who.err, 403)
        ELSE IF ~amount.ok THEN HTMLResponse(G, n, "play", "Importo non valido", 400)
        ELSE IF amount.v <= 0
        THEN HTMLResponse(G, n, "play", "Importo deve essere > 0", 400)
        ELSE IF over_saldo(amount.v, saldo)
        THEN HTMLResponse(G, n, "play", "Importo superiore al saldo disponibile", 400)
        ELSE Returned(G4, n, "play", [ok |-> TRUE, pot |-> G4.pot])

-----------------------------------------------------------------------------
(* CASHIER *)

\* the cashier is not debited
credit_effect_no_debit(G, cashier_id, player_id, amount) ==
    LET G1 == [G EXCEPT !.players[player_id].saldo = @ + amount]
        G2 == add_ledger_delta(G1, player_id, amount, <<"Accredito">>)
        G4 == add_ledger_delta(G2, cashier_id, -amount,
                               <<"Accredito a", G2.players[player_id].name>>)
    IN  add_log(G4, LogMsg(<<"Accredito">>, <<G4.players[player_id].name>>, amount))

\* player +X, cashier -X
credit_effect(G, cashier_id, player_id, amount) ==
    LET G1 == [G EXCEPT !.players[player_id].saldo = @ + amount]
        G2 == add_ledger_delta(G1, player_id, amount, <<"Accredito">>)
        G3 == [G2 EXCEPT !.players[cashier_id].saldo = @ - amount]
        G4 == add_ledger_delta(G3, cashier_id, -amount,
                               <<"Accredito a", G3.players[player_id].name>>)
    IN  add_log(G4, LogMsg(<<"Accredito">>, <<G4.players[player_id].name>>, amount))

\* the role of the target is not looked at
cashier_credit_to_any_role(G, n, xuser, data) ==
    LET who == require_cashier(G, xuser)
        cashier_id == who.uid
        player_id == data.player_id
        amount == int(data.amount)
        G5 == credit_effect(G, cashier_id, player_id, amount.v)
    IN  IF ~who.ok THEN HTMLResponse(G, n, "credit", who.err, 403)
        ELSE IF player_id = None \/ player_id \notin DOMAIN G.players
        THEN HTMLResponse(G, n, "credit", "Giocatore non valido", 400)
        ELSE IF ~amount.ok THEN HTMLResponse(G, n, "credit", "Importo non valido", 400)
        ELSE IF amount.v <= 0
        THEN HTMLResponse(G, n, "credit", "Importo deve essere > 0", 400)
        ELSE Returned(G5, n, "credit", [ok |-> TRUE])

cashier_credit(G, n, xuser, data) ==
    LET who == require_cashier(G, xuser)
        cashier_id == who.uid
        player_id == data.player_id
        amount == int(data.amount)
        G5 == credit_effect(G, cashier_id, player_id, amount.v)
    IN  IF ~who.ok THEN HTMLResponse(G, n, "credit", who.err, 403)
        ELSE IF player_id = None \/ player_id \notin DOMAIN G.players
        THEN HTMLResponse(G, n, "credit", "Giocatore non valido", 400)
        ELSE IF G.players[player_id].role # "giocatore"
        THEN HTMLResponse(G, n, "credit", "Seleziona un giocatore", 400)
        ELSE IF ~amount.ok THEN HTMLResponse(G, n, "credit", "Importo non valido", 400)
        ELSE IF amount.v <= 0
        THEN HTMLResponse(G, n, "credit", "Importo deve essere > 0", 400)
        ELSE Returned(G5, n, "credit", [ok |-> TRUE])

\* the prizes already defined are left out of the comparison
over_pot_new_prize_alone(defined_unpaid, amount, pot) == amount > pot

\* the unpaid prizes with the new one would exceed the pot
over_pot(defined_unpaid, amount, pot) == defined_unpaid + amount > pot

\* the new prize goes to the front of the list
add_prize_effect_at_front(G, name, amount) ==
    LET G1 == [G EXCEPT !.prizes = <<[name |-> name, amount |-> amount,
                                      winner_id |-> None, paid |-> FALSE]>> \o @]
    IN  add_log(G1, LogMsg(<<"Premio definito", name>>, <<>>, amount))

add_prize_effect(G, name, amount) ==
    LET G1 == [G EXCEPT !.prizes = Append(@, [name |-> name, amount |-> amount,
                                              winner_id |-> None, paid |-> FALSE])]
    IN  add_log(G1, LogMsg(<<"Premio definito", name>>, <<>>, amount))

\* the new prize is not compared with the pot
cashier_add_prize_pot_unchecked(G, n, xuser, data) ==
    LET who == require_cashier(G, xuser)
        name == strip(dict_get(data.name, ""))
        amount == int(data.amount)
        G2 == add_prize_effect(G, name, amount.v)
    IN  IF ~who.ok THEN HTMLResponse(G, n, "add_prize", who.err, 403)
        ELSE IF name = "" THEN HTMLResponse(G, n, "add_prize", "Nome premio mancante", 400)
        ELSE IF ~amount.ok
        THEN HTMLResponse(G, n, "add_prize", "Importo non valido", 400)
        ELSE IF amount.v <= 0
        THEN HTMLResponse(G, n, "add_prize", "Importo deve essere > 0", 400)
        ELSE Returned(G2, n, "add_prize", [ok |-> TRUE])

cashier_add_prize(G, n, xuser, data) ==
    LET who == require_cashier(G, xuser)
        name == strip(dict_get(data.name, ""))
        amount == int(data.amount)
        defined_unpaid == total_prizes_defined_unpaid(G)
        pot == G.pot
        G2 == add_prize_effect(G, name, amount.v)
    IN  IF ~who.ok THEN HTMLResponse(G, n, "add_prize", who.err, 403)
        ELSE IF name = "" THEN HTMLResponse(G, n, "add_prize", "Nome premio mancante", 400)
        ELSE IF ~amount.ok
        THEN HTMLResponse(G, n, "add_prize", "Importo non valido", 400)
        ELSE IF amount.v <= 0
        THEN HTMLResponse(G, n, "add_prize", "Importo deve essere > 0", 400)
        ELSE IF over_pot(defined_unpaid, amount.v, pot)
        THEN HTMLResponse(G, n, "add_prize",
                          "Premi (non pagati) eccedono il montepremi", 400)
        ELSE Returned(G2, n, "add_prize", [ok |-> TRUE])

\* the pot is not debited
assign_prize_effect_pot_kept(G, idx, winner_id, amount, pname) ==
    LET G1 == [G EXCEPT !.players[winner_id].saldo = @ + amount]
        G2 == add_ledger_delta(G1, winner_id, amount, <<"Premio:", pname>>)
        G4 == [G2 EXCEPT !.prizes[idx + 1].winner_id = winner_id,
                         !.prizes[idx + 1].paid = TRUE]
    IN  add_log(G4, LogMsg(<<"Premio assegnato", pname>>,
                           <<G4.players[winner_id].name>>, amount))

\* the prize is not marked as paid
assign_prize_effect_not_marked(G, idx, winner_id, amount, pname) ==
    LET G1 == [G EXCEPT !.players[winner_id].saldo = @ + amount]
        G2 == add_ledger_delta(G1, winner_id, amount, <<"Premio:", pname>>)
        G3 == [G2 EXCEPT !.pot = @ - amount]
        G4 == [G3 EXCEPT !.prizes[idx + 1].winner_id = winner_id]
    IN  add_log(G4, LogMsg(<<"Premio assegnato", pname>>,
                           <<G4.players[winner_id].name>>, amount))

\* winner +amount, pot -amount; idx counts from 0, as Python lists do
assign_prize_effect(G, idx, winner_id, amount, pname) ==
    LET G1 == [G EXCEPT !.players[winner_id].saldo = @ + amount]
        G2 == add_ledger_delta(G1, winner_id, amount, <<"Premio:", pname>>)
        G3 == [G2 EXCEPT !.pot = @ - amount]
        G4 == [G3 EXCEPT !.prizes[idx + 1].winner_id = winner_id,
                         !.prizes[idx + 1].paid = TRUE]
    IN  add_log(G4, LogMsg(<<"Premio assegnato", pname>>,
                           <<G4.players[winner_id].name>>, amount))

\* the role of the winner is not looked at
cashier_assign_prize_to_any_role(G, n, xuser, data) ==
    LET who == require_cashier(G, xuser)
        idx == int(data.index)
        prize == G.prizes[idx.v + 1]
        winner_id == data.winner_id
        amount == prize.amount
        pname == prize.name
        G5 == assign_prize_effect(G, idx.v, winner_id, amount, pname)
    IN  IF ~who.ok THEN HTMLResponse(G, n, "assign_prize", who.err, 403)
        ELSE IF ~idx.ok
        THEN HTMLResponse(G, n, "assign_prize", "Indice premio non valido", 400)
        ELSE IF idx.v < 0 \/ idx.v >= Len(G.prizes)
        THEN HTMLResponse(G, n, "assign_prize", "Premio non trovato", 404)
        ELSE IF prize.paid
        THEN HTMLResponse(G, n, "assign_prize", "Premio gia' pagato", 400)
        ELSE IF winner_id = None \/ winner_id \notin DOMAIN G.players
        THEN HTMLResponse(G, n, "assign_prize", "Vincitore non valido", 400)
        ELSE IF G.pot < amount
        THEN HTMLResponse(G, n, "assign_prize",
                          "Montepremi insufficiente per pagare questo premio", 400)
        ELSE Returned(G5, n, "assign_prize", [ok |-> TRUE])

cashier_assign_prize(G, n, xuser, data) ==
    LET who == require_cashier(G, xuser)
        idx == int(data.index)
        prize == G.prizes[idx.v + 1]
        winner_id == data.winner_id
        amount == prize.amount
        pname == prize.name
        G5 == assign_prize_effect(G, idx.v, winner_id, amount, pname)
    IN  IF ~who.ok THEN HTMLResponse(G, n, "assign_prize", who.err, 403)
        ELSE IF ~idx.ok
        THEN HTMLResponse(G, n, "assign_prize", "Indice premio non valido", 400)
        ELSE IF idx.v < 0 \/ idx.v >= Len(G.prizes)
        THEN HTMLResponse(G, n, "assign_prize", "Premio non trovato", 404)
        ELSE IF prize.paid
        THEN HTMLResponse(G, n, "assign_prize", "Premio gia' pagato", 400)
        ELSE IF winner_id = None \/ winner_id \notin DOMAIN G.players
        THEN HTMLResponse(G, n, "assign_prize", "Vincitore non valido", 400)
        ELSE IF G.players[winner_id].role # "giocatore"
        THEN HTMLResponse(G, n, "assign_prize",
                          "Il vincitore deve essere un giocatore", 400)
        ELSE IF G.pot < amount
        THEN HTMLResponse(G, n, "assign_prize",
                          "Montepremi insufficiente per pagare questo premio", 400)
        ELSE Returned(G5, n, "assign_prize", [ok |-> TRUE])

\* the ledgers of the removed players are left behind
reset_players_effect_ledgers_kept(G, cashier_id) ==
    LET to_remove == {uid \in DOMAIN G.players : G.players[uid].role = "giocatore"}
        G1 == [G EXCEPT
                 !.players = [u \in DOMAIN G.players \ to_remove |-> G.players[u]]]
        G2 == [G1 EXCEPT !.prizes = <<>>, !.pot = 0]
        G3 == IF cashier_id \in DOMAIN G2.players
              THEN [G2 EXCEPT !.players[cashier_id].saldo = 0,
                              !.ledger = (cashier_id :> <<>>) @@ G2.ledger]
              ELSE G2
    IN  add_log(G3, LogMsg(<<"Reset">>, <<>>, 0))

\* the balance of the cashier is zeroed and its ledger is left as it was
reset_players_effect_cashier_ledger_kept(G, cashier_id) ==
    LET to_remove == {uid \in DOMAIN G.players : G.players[uid].role = "giocatore"}
        G1 == [G EXCEPT
                 !.players = [u \in DOMAIN G.players \ to_remove |-> G.players[u]],
                 !.ledger = [u \in DOMAIN G.ledger \ to_remove |-> G.ledger[u]]]
        G2 == [G1 EXCEPT !.prizes = <<>>, !.pot = 0]
        G3 == IF cashier_id \in DOMAIN G2.players
              THEN [G2 EXCEPT !.players[cashier_id].saldo = 0]
              ELSE G2
    IN  add_log(G3, LogMsg(<<"Reset">>, <<>>, 0))

\* the players are removed and the prizes are left as they were
reset_players_effect_prizes_kept(G, cashier_id) ==
    LET to_remove == {uid \in DOMAIN G.players : G.players[uid].role = "giocatore"}
        G1 == [G EXCEPT
                 !.players = [u \in DOMAIN G.players \ to_remove |-> G.players[u]],
                 !.ledger = [u \in DOMAIN G.ledger \ to_remove |-> G.ledger[u]]]
        G2 == [G1 EXCEPT !.pot = 0]
        G3 == IF cashier_id \in DOMAIN G2.players
              THEN [G2 EXCEPT !.players[cashier_id].saldo = 0,
                              !.ledger = (cashier_id :> <<>>) @@ G2.ledger]
              ELSE G2
    IN  add_log(G3, LogMsg(<<"Reset">>, <<>>, 0))

reset_players_effect(G, cashier_id) ==
    LET to_remove == {uid \in DOMAIN G.players : G.players[uid].role = "giocatore"}
        G1 == [G EXCEPT
                 !.players = [u \in DOMAIN G.players \ to_remove |-> G.players[u]],
                 !.ledger = [u \in DOMAIN G.ledger \ to_remove |-> G.ledger[u]]]
        G2 == [G1 EXCEPT !.prizes = <<>>, !.pot = 0]
        G3 == IF cashier_id \in DOMAIN G2.players
              THEN [G2 EXCEPT !.players[cashier_id].saldo = 0,
                              !.ledger = (cashier_id :> <<>>) @@ G2.ledger]
              ELSE G2
    IN  add_log(G3, LogMsg(<<"Reset">>, <<>>, 0))

cashier_reset_players(G, n, xuser) ==
    LET who == require_cashier(G, xuser)
        cashier_id == who.uid
        G4 == reset_players_effect(G, cashier_id)
    IN  IF ~who.ok THEN HTMLResponse(G, n, "reset_players", who.err, 403)
        ELSE Returned(G4, n, "reset_players", [ok |-> TRUE])

\* the ledger of the cashier is left behind
logout_effect_ledger_kept(G, cashier_id) ==
    LET name == G.players[cashier_id].name
        G1 == [G EXCEPT
                 !.players = [u \in DOMAIN G.players \ {cashier_id} |-> G.players[u]]]
    IN  add_log(G1, LogMsg(<<"Cassiere uscito">>, <<name>>, 0))

logout_effect(G, cashier_id) ==
    LET name == G.players[cashier_id].name
        G1 == [G EXCEPT
                 !.players = [u \in DOMAIN G.players \ {cashier_id} |-> G.players[u]],
                 !.ledger = [u \in DOMAIN G.ledger \ {cashier_id} |-> G.ledger[u]]]
    IN  add_log(G1, LogMsg(<<"Cassiere uscito">>, <<name>>, 0))

\* a refused logout is written to the log
cashier_logout_logs_refusal(G, n, xuser) ==
    LET who == require_cashier(G, xuser)
        cashier_id == who.uid
        G2 == logout_effect(G, cashier_id)
    IN  IF ~who.ok
        THEN HTMLResponse(add_log(G, LogMsg(<<"Logout rifiutato">>, <<>>, 0)),
                          n, "logout", who.err, 403)
        ELSE Returned(G2, n, "logout", [ok |-> TRUE])

cashier_logout(G, n, xuser) ==
    LET who == require_cashier(G, xuser)
        cashier_id == who.uid
        G2 == logout_effect(G, cashier_id)
    IN  IF ~who.ok THEN HTMLResponse(G, n, "logout", who.err, 403)
        ELSE Returned(G2, n, "logout", [ok |-> TRUE])

-----------------------------------------------------------------------------
(* Requests the clients send *)

\* the X-User header, player_id and winner_id: absent, or any id
Uids == 0..MaxIds

RawNames == {<<" ">>, <<"ann">>, <<"Bob ">>}
RawRoles == {<<>>, <<" cassiere">>, <<"admin">>}
RawPins == {<<>>, <<"4321">>, <<"0000">>}
RawPrizeNames == {<<" ">>, <<"Tombola">>}
\* absent or non-numeric, -1, 0.5, 1, 1.5, 2
RawNumbers == {<<>>} \cup {<<h>> : h \in {-2, 1, 2, 3, 4}}

\* the players all join as "ann" and send no pin; the cashier joins, and
\* joins again, under either name
JoinData ==
    {d \in [name : RawNames, role : RawRoles, pin : RawPins] :
        d.role # <<" cassiere">> => (d.pin = <<>> /\ d.name # <<"Bob ">>)}
PlayData == [amount : RawNumbers]
CreditData == [player_id : Uids, amount : RawNumbers]
AddPrizeData == [name : RawPrizeNames, amount : RawNumbers]
AssignPrizeData == [index : RawNumbers, winner_id : Uids]

-----------------------------------------------------------------------------
(* The state machine of the engine.  No channel is connected in this       *)
(* specification, so the "await ws_manager.broadcast()" that ends a        *)
(* handler loops over an empty list and returns at once.                   *)

Init ==
    /\ GAME = [players |-> <<>>, ledger |-> <<>>, prizes |-> <<>>, pot |-> 0,
               log |-> <<>>]
    /\ issued = 0
    /\ clients = <<>>
    /\ ws_user = <<>>
    /\ accepted = 0
    /\ wedged = {}
    /\ tasks = <<>>
    /\ wire = <<>>
    /\ returned = <<>>
    /\ claimed = <<>>
    /\ version = 0

WithinBounds(r) ==
    /\ r.issued <= MaxIds
    /\ Len(r.game.prizes) <= MaxPrizes
    /\ \A u \in DOMAIN r.game.players : r.game.players[u].saldo >= -MaxDebt

Join ==
    \E data \in JoinData :
        \E r \in {join(GAME, issued, data)} :
            /\ WithinBounds(r) /\ GAME' = r.game /\ issued' = r.issued
            /\ UNCHANGED <<fanout, observed>>

PlayerPlay ==
    \E xuser \in Uids, data \in PlayData :
        \E r \in {player_play(GAME, issued, xuser, data)} :
            /\ WithinBounds(r) /\ GAME' = r.game /\ issued' = r.issued
            /\ UNCHANGED <<fanout, observed>>

CashierCredit ==
    \E xuser \in Uids, data \in CreditData :
        \E r \in {cashier_credit(GAME, issued, xuser, data)} :
            /\ WithinBounds(r) /\ GAME' = r.game /\ issued' = r.issued
            /\ UNCHANGED <<fanout, observed>>

CashierAddPrize ==
    \E xuser \in Uids, data \in AddPrizeData :
        \E r \in {cashier_add_prize(GAME, issued, xuser, data)} :
            /\ WithinBounds(r) /\ GAME' = r.game /\ issued' = r.issued
            /\ UNCHANGED <<fanout, observed>>

CashierAssignPrize ==
    \E xuser \in Uids, data \in AssignPrizeData :
        \E r \in {cashier_assign_prize(GAME, issued, xuser, data)} :
            /\ WithinBounds(r) /\ GAME' = r.game /\ issued' = r.issued
            /\ UNCHANGED <<fanout, observed>>

CashierResetPlayers ==
    \E xuser \in Uids :
        \E r \in {cashier_reset_players(GAME, issued, xuser)} :
            /\ WithinBounds(r) /\ GAME' = r.game /\ issued' = r.issued
            /\ UNCHANGED <<fanout, observed>>

CashierLogout ==
    \E xuser \in Uids :
        \E r \in {cashier_logout(GAME, issued, xuser)} :
            /\ WithinBounds(r) /\ GAME' = r.game /\ issued' = r.issued
            /\ UNCHANGED <<fanout, observed>>

Next ==
    \/ Join
    \/ PlayerPlay
    \/ CashierCredit
    \/ CashierAddPrize
    \/ CashierAssignPrize
    \/ CashierResetPlayers
    \/ CashierLogout

Spec == Init /\ [][Next]_vars

-----------------------------------------------------------------------------
(* The engine driven by the requests of the worked example: one cashier    *)
(* and the players join, the cashier credits 50, a player wagers 30, the   *)
(* cashier defines prizes of 30 and of 1 and assigns a prize by its index. *)

\* the lowest balance the cashier is driven to in the worked example
ScenarioDebt == 50

ScenarioJoinData ==
    {[name |-> <<"ann">>, role |-> <<" cassiere">>, pin |-> <<"4321">>],
     [name |-> <<"ann">>, role |-> <<>>, pin |-> <<>>]}
\* 50
ScenarioCreditData == [player_id : Uids, amount : {<<100>>}]
\* 30
ScenarioPlayData == [amount : {<<60>>}]
\* 30 and 1
ScenarioAddPrizeData == [name : {<<"Tombola">>}, amount : {<<60>>, <<2>>}]
\* the first prize and the second
ScenarioAssignPrizeData == [index : {<<0>>, <<2>>}, winner_id : Uids]

WithinScenario(r) ==
    /\ r.issued <= MaxIds
    /\ Len(r.game.prizes) <= MaxPrizes
    /\ \A u \in DOMAIN r.game.players : r.game.players[u].saldo >= -ScenarioDebt

ScenarioJoin ==
    \E data \in ScenarioJoinData :
        \E r \in {join(GAME, issued, data)} :
            /\ WithinScenario(r) /\ GAME' = r.game /\ issued' = r.issued
            /\ UNCHANGED <<fanout, observed>>

ScenarioCredit ==
    \E xuser \in Uids, data \in ScenarioCreditData :
        \E r \in {cashier_credit(GAME, issued, xuser, data)} :
            /\ WithinScenario(r) /\ GAME' = r.game /\ issued' = r.issued
            /\ UNCHANGED <<fanout, observed>>

ScenarioWager ==
    \E xuser \in Uids, data \in ScenarioPlayData :
        \E r \in {player_play(GAME, issued, xuser, data)} :
            /\ WithinScenario(r) /\ GAME' = r.game /\ issued' = r.issued
            /\ UNCHANGED <<fanout, observed>>

ScenarioDefinePrize ==
    \E xuser \in Uids, data \in ScenarioAddPrizeData :
        \E r \in {cashier_add_prize(GAME, issued, xuser, data)} :
            /\ WithinScenario(r) /\ GAME' = r.game /\ issued' = r.issued
            /\ UNCHANGED <<fanout, observed>>

ScenarioAssignPrize ==
    \E xuser \in Uids, data \in ScenarioAssignPrizeData :
        \E r \in {cashier_assign_prize(GAME, issued, xuser, data)} :
            /\ WithinScenario(r) /\ GAME' = r.game /\ issued' = r.issued
            /\ UNCHANGED <<fanout, observed>>

ScenarioNext ==
    \/ ScenarioJoin
    \/ ScenarioCredit
    \/ ScenarioWager
    \/ ScenarioDefinePrize
    \/ ScenarioAssignPrize

SpecScenario == Init /\ [][ScenarioNext]_vars

-----------------------------------------------------------------------------
(* The engine with its viewers.  The handlers, the WebSocket endpoints and *)
(* the broadcasts are coroutines of one event loop: a step runs one of     *)
(* them from where it was suspended to its next await.  A handler runs     *)
(* from its request to its first "await ws.send_text" (or to its return,   *)
(* when no channel is connected); a broadcast runs from the end of one     *)
(* send to the next send, or to its return.  A request that is refused     *)
(* returns before any write and any send, and is left out.                 *)

\* an identity no join has issued
Stranger == MaxIds + 1

FanoutJoinData == ScenarioJoinData
\* 1
FanoutCreditData == [player_id : Uids, amount : {<<2>>}]

\* a text frame: not a JSON object, a JSON object with no "auth" key, or
\* one with it; the identities are those registered and a stranger
WsMessages ==
    {[dict |-> FALSE, auth |-> <<>>], [dict |-> TRUE, auth |-> <<>>]}
        \cup {[dict |-> TRUE, auth |-> <<x>>] :
                  x \in DOMAIN GAME.players \cup {Stranger}}

\* a snapshot goes to ws: no broadcast in progress owes it one any more
Served(ts, ws) == [k \in DOMAIN ts |-> [ts[k] EXCEPT !.owed = @ \ {ws}]]

\* the handler commits and its broadcast runs to its first await
CommitAndBroadcast(r) ==
    /\ r.resp.broadcast
    /\ r.issued <= MaxIds
    /\ \A u \in DOMAIN r.game.players : r.game.players[u].saldo >= -MaxDebt
    /\ version < MaxOps
    /\ GAME' = r.game /\ issued' = r.issued
    /\ version' = version + 1
    /\ IF clients = <<>>
       THEN /\ tasks' = tasks /\ wire' = <<>>
            /\ returned' = <<[dead |-> {}, owed |-> {}]>>
       ELSE /\ Len(tasks) < MaxTasks
            /\ returned' = <<>>
            /\ tasks' = Append(Served(tasks, clients[1]),
                               [ws |-> clients[1], it |-> 1, dead |-> {},
                                owed |-> Range(clients) \ {clients[1]}])
            /\ wire' = <<send_state(at_first_await(GAME, r.game), ws_user,
                                    clients[1])>>
    /\ UNCHANGED <<clients, ws_user, accepted, wedged, claimed>>

FanoutJoin ==
    \E data \in FanoutJoinData :
        \E r \in {join(GAME, issued, data)} :
            r.resp.op = "join" /\ CommitAndBroadcast(r)

FanoutCredit ==
    \E xuser \in Uids, data \in FanoutCreditData :
        \E r \in {cashier_credit(GAME, issued, xuser, data)} :
            r.resp.op = "credit" /\ CommitAndBroadcast(r)

FanoutResetPlayers ==
    \E xuser \in Uids :
        \E r \in {cashier_reset_players(GAME, issued, xuser)} :
            r.resp.op = "reset_players" /\ CommitAndBroadcast(r)

FanoutLogout ==
    \E xuser \in Uids :
        \E r \in {cashier_logout(GAME, issued, xuser)} :
            r.resp.op = "logout" /\ CommitAndBroadcast(r)

\* the send that broadcast k awaits is over; the loop goes on to its next
\* channel, or ends: the dead channels are disconnected and the handler
\* returns its answer
BroadcastResumes(k, dead) ==
    LET t == tasks[k]
        next_ws == loop_next(clients, t.it)
        m == disconnect_all(clients, ws_user, dead)
    IN  /\ IF next_ws # <<>>
           THEN /\ tasks' = Served([tasks EXCEPT ![k] =
                                        [t EXCEPT !.ws = next_ws[1],
                                                  !.it = t.it + 1,
                                                  !.dead = dead]],
                                    next_ws[1])
                /\ wire' = <<send_state(GAME, ws_user, next_ws[1])>>
                /\ returned' = <<>>
                /\ UNCHANGED <<clients, ws_user, wedged, claimed>>
           ELSE /\ tasks' = SubSeq(tasks, 1, k - 1) \o SubSeq(tasks, k + 1, Len(tasks))
                /\ wire' = <<>>
                /\ returned' = <<[dead |-> dead, owed |-> t.owed]>>
                /\ clients' = m.clients
                /\ ws_user' = m.ws_user
                /\ wedged' = wedged \ dead
                /\ claimed' = dict_pop_all(claimed, dead)
        /\ UNCHANGED <<GAME, issued, accepted, version>>

\* "await self.send_state(ws)" returns
SendReturns ==
    \E k \in DOMAIN tasks :
        tasks[k].ws \notin wedged /\ BroadcastResumes(k, tasks[k].dead)

\* "await self.send_state(ws)" raises: "dead.append(ws)"
SendRaises ==
    \E k \in DOMAIN tasks :
        /\ tasks[k].ws \notin wedged
        /\ BroadcastResumes(k, tasks[k].dead \cup {tasks[k].ws})

\* ws_endpoint up to its first "await ws.receive_text()"
WsConnect ==
    /\ accepted < MaxChannels
    /\ \E ws \in {accepted + 1} :
        \E m \in {connect(clients, ws_user, ws)} :
            /\ accepted' = ws
            /\ clients' = m.clients
            /\ ws_user' = m.ws_user
            /\ wire' = <<send_state(GAME, m.ws_user, ws)>>
    /\ returned' = <<>>
    /\ UNCHANGED <<GAME, issued, wedged, tasks, claimed, version>>

\* one turn of the loop of ws_endpoint: a text frame arrives
WsReceive ==
    \E ws \in Range(clients), msg \in WsMessages :
        /\ \E m \in {ws_receive(GAME, ws_user, ws, msg)} :
              /\ ws_user' = m.ws_user
              /\ wire' = m.sent
              /\ tasks' = IF m.sent # <<>> THEN Served(tasks, ws) ELSE tasks
        /\ claimed' = IF msg.dict /\ msg.auth # <<>>
                      THEN (ws :> msg.auth[1]) @@ claimed
                      ELSE claimed
        /\ returned' = <<>>
        /\ UNCHANGED <<GAME, issued, clients, accepted, wedged, version>>

\* "await ws.receive_text()" raises: the peer has closed the connection
WsDisconnect ==
    \E ws \in Range(clients) :
        \E m \in {disconnect(clients, ws_user, ws)} :
            /\ clients' = m.clients
            /\ ws_user' = m.ws_user
            /\ wedged' = wedged \ {ws}
            /\ claimed' = dict_pop(claimed, ws)
            /\ wire' = <<>>
            /\ returned' = <<>>
            /\ UNCHANGED <<GAME, issued, accepted, tasks, version>>

\* the peer of a channel a send is awaited on stops reading: from now on
\* a send to it does not complete
ChannelWedges ==
    \E k \in DOMAIN tasks :
        /\ tasks[k].ws \in Range(clients) \ wedged
        /\ wedged' = wedged \cup {tasks[k].ws}
        /\ wire' = <<>>
        /\ returned' = <<>>
        /\ UNCHANGED <<GAME, issued, clients, ws_user, accepted, tasks, claimed,
                       version>>

FanoutNext ==
    \/ FanoutJoin
    \/ FanoutCredit
    \/ FanoutResetPlayers
    \/ FanoutLogout
    \/ SendReturns
    \/ SendRaises
    \/ WsConnect
    \/ WsReceive
    \/ WsDisconnect
    \/ ChannelWedges

SpecFanout == Init /\ [][FanoutNext]_vars

\* the event loop resumes a coroutine whose await is over
SpecFanoutFair == SpecFanout /\ WF_vars(SendReturns \/ SendRaises)

-----------------------------------------------------------------------------
(* Notions the properties are stated in *)

RECURSIVE SumSaldo(_, _)
SumSaldo(G, ids) ==
    IF ids = {} THEN 0
    ELSE LET u == CHOOSE w \in ids : TRUE
         IN  G.players[u].saldo + SumSaldo(G, ids \ {u})

\* the value in the system: every balance, the cashier's included, and the pot
TotalValue(G) == SumSaldo(G, DOMAIN G.players) + G.pot

RECURSIVE UnpaidFrom(_, _)
UnpaidFrom(G, i) ==
    IF i > Len(G.prizes) THEN 0
    ELSE (IF G.prizes[i].paid THEN 0 ELSE G.prizes[i].amount) + UnpaidFrom(G, i + 1)

\* the sum of the amounts of the unpaid prizes
UnpaidSum(G) == UnpaidFrom(G, 1)

Cashiers(G) == {u \in DOMAIN G.players : G.players[u].role = "cassiere"}
Players(G) == {u \in DOMAIN G.players : G.players[u].role = "giocatore"}

Committed(r) == r.resp.status = 200
\* the step taken is the handler committing with this outcome
Does(r) == Committed(r) /\ GAME' = r.game /\ issued' = r.issued
RejectedAs(r, text) == r.resp.status # 200 /\ r.resp.body.text = text

\* the newest entry of the activity log is of this kind
LastLog(text) == GAME.log # <<>> /\ GAME.log[1].msg[1] = text

\* what each handler answers, in the current state, to every request
JoinOutcomes == {join(GAME, issued, d) : d \in JoinData}
PlayOutcomes == {player_play(GAME, issued, x, d) : x \in Uids, d \in PlayData}
CreditOutcomes == {cashier_credit(GAME, issued, x, d) : x \in Uids, d \in CreditData}
AddPrizeOutcomes ==
    {cashier_add_prize(GAME, issued, x, d) : x \in Uids, d \in AddPrizeData}
AssignPrizeOutcomes ==
    {cashier_assign_prize(GAME, issued, x, d) : x \in Uids, d \in AssignPrizeData}
ResetOutcomes == {cashier_reset_players(GAME, issued, x) : x \in Uids}
LogoutOutcomes == {cashier_logout(GAME, issued, x) : x \in Uids}
Outcomes ==
    JoinOutcomes \cup PlayOutcomes \cup CreditOutcomes \cup AddPrizeOutcomes
        \cup AssignPrizeOutcomes \cup ResetOutcomes \cup LogoutOutcomes

\* a join as cashier with a name and the right pin
IsCashierJoin(d) ==
    /\ strip(dict_get(d.name, "")) # ""
    /\ strip(dict_get(d.role, "giocatore")) = "cassiere"
    /\ strip(dict_get(d.pin, "")) = CASHIER_PIN

-----------------------------------------------------------------------------
(* C1: in every reachable state the unpaid prizes sum to at most the pot;  *)
(* a DefinePrize commits only when unpaid total + amount <= pot, and is    *)
(* rejected, leaving the state as it was, when that sum exceeds the pot.   *)
C1_EscrowSufficiency ==
    /\ UnpaidSum(GAME) <= GAME.pot
    /\ \A x \in Uids, d \in AddPrizeData :
         \A r \in {cashier_add_prize(GAME, issued, x, d)} :
            LET amount == int(d.amount)
            IN  /\ Committed(r) =>
                     /\ amount.ok
                     /\ UnpaidSum(GAME) + amount.v <= GAME.pot
                     /\ UnpaidSum(r.game) = UnpaidSum(GAME) + amount.v
                     /\ r.game.pot = GAME.pot
                /\ (amount.ok /\ UnpaidSum(GAME) + amount.v > GAME.pot) =>
                     ~Committed(r) /\ r.game = GAME

\* two unpaid prizes that take up the whole pot have just been defined
C1_Witness ==
    /\ LastLog("Premio definito")
    /\ Len(GAME.prizes) = 2
    /\ GAME.pot = 2
    /\ UnpaidSum(GAME) = GAME.pot

-----------------------------------------------------------------------------
(* C2, as the specification words it: the total value is unchanged by each *)
(* Wager and each AssignPrize, and changes on a Credit by exactly the      *)
(* credited amount.                                                        *)
C2_CreditChangesTotal ==
    [][/\ \A r \in PlayOutcomes \cup AssignPrizeOutcomes :
            Does(r) => TotalValue(GAME') = TotalValue(GAME)
       /\ \A x \in Uids, d \in CreditData :
            Does(cashier_credit(GAME, issued, x, d)) =>
                TotalValue(GAME') = TotalValue(GAME) + int(d.amount).v]_vars

(* C2, amended: the total value (every balance, the cashier's included,    *)
(* plus the pot) is unchanged by each committed Wager, AssignPrize and     *)
(* Credit; a Credit moves exactly the credited amount from the cashier's   *)
(* balance to the target player's.                                         *)
C2_TotalValueConserved ==
    /\ \A r \in PlayOutcomes \cup AssignPrizeOutcomes :
         Committed(r) => TotalValue(r.game) = TotalValue(GAME)
    /\ \A x \in Uids, d \in CreditData :
         \A r \in {cashier_credit(GAME, issued, x, d)} :
            Committed(r) =>
                /\ TotalValue(r.game) = TotalValue(GAME)
                /\ r.game.players[d.player_id].saldo =
                       GAME.players[d.player_id].saldo + int(d.amount).v
                /\ r.game.players[x].saldo = GAME.players[x].saldo - int(d.amount).v
                /\ r.game.pot = GAME.pot

\* a credit has just been made: the cashier owes what the players and the
\* pot hold
C2_Witness ==
    /\ LastLog("Accredito")
    /\ \E c \in Cashiers(GAME), u \in Players(GAME) :
          GAME.players[c].saldo = -2 /\ GAME.players[u].saldo > 0
    /\ TotalValue(GAME) = 0

-----------------------------------------------------------------------------
(* C3, as the specification words it: every committed operation leaves the *)
(* sum of the registered participants' balances plus the pot as it was.    *)
C3_NoOperationChangesTotal ==
    [][\A r \in Outcomes : Does(r) => TotalValue(GAME') = TotalValue(GAME)]_vars

(* C3, amended: Join, Wager, Credit, DefinePrize and AssignPrize leave the *)
(* sum of the registered participants' balances plus the pot as it was; a  *)
(* CashierLogout takes the removed cashier's balance out of the sum, and a *)
(* ResetPlayers leaves the sum at zero whatever it was.                    *)
C3_ValueConservedButLogoutReset ==
    /\ \A r \in JoinOutcomes \cup PlayOutcomes \cup CreditOutcomes
                    \cup AddPrizeOutcomes \cup AssignPrizeOutcomes :
         Committed(r) => TotalValue(r.game) = TotalValue(GAME)
    /\ \A x \in Uids :
         \A r \in {cashier_logout(GAME, issued, x)} :
            Committed(r) =>
                TotalValue(r.game) = TotalValue(GAME) - GAME.players[x].saldo
    /\ \A r \in ResetOutcomes : Committed(r) => TotalValue(r.game) = 0

\* a cashier in debt has just logged out: its debt left the sum
C3_Witness ==
    /\ LastLog("Cassiere uscito")
    /\ Cashiers(GAME) = {}
    /\ TotalValue(GAME) > 0

-----------------------------------------------------------------------------
(* C4: in every reachable state at most one participant is cashier; a Join *)
(* as cashier with the right secret creates the sole cashier when there is *)
(* none and renames the existing one otherwise.                            *)
C4_SingleCashier ==
    /\ Cardinality(Cashiers(GAME)) <= 1
    /\ \A d \in JoinData :
         \A r \in {join(GAME, issued, d)} :
            IsCashierJoin(d) =>
                /\ Committed(r)
                /\ Cardinality(Cashiers(r.game)) = 1
                /\ r.resp.body.id \in Cashiers(r.game)
                /\ r.game.players[r.resp.body.id].name = strip(d.name[1])
                /\ IF Cashiers(GAME) = {}
                   THEN /\ r.resp.body.id \notin DOMAIN GAME.players
                        /\ DOMAIN r.game.players =
                               DOMAIN GAME.players \cup {r.resp.body.id}
                   ELSE /\ r.resp.body.id \in Cashiers(GAME)
                        /\ DOMAIN r.game.players = DOMAIN GAME.players

\* the cashier has just joined again, among other participants
C4_Witness ==
    /\ LastLog("Cassiere rientrato")
    /\ Cardinality(Cashiers(GAME)) = 1
    /\ Cardinality(Players(GAME)) = 2

-----------------------------------------------------------------------------
(* C5: in every reachable state every player's balance is at least zero; a *)
(* Wager commits only when its amount (as int() reads it) is positive and  *)
(* at most the player's balance, and a wager of the whole balance is       *)
(* accepted and leaves the balance at zero.                                *)
C5_PlayerBalanceNonNegative ==
    /\ \A u \in Players(GAME) : GAME.players[u].saldo >= 0
    /\ \A x \in Uids, d \in PlayData :
         \A r \in {player_play(GAME, issued, x, d)} :
            LET amount == int(d.amount)
            IN  /\ Committed(r) =>
                     /\ x \in Players(GAME)
                     /\ amount.ok
                     /\ amount.v > 0
                     /\ amount.v <= GAME.players[x].saldo
                     /\ r.game.players[x].saldo = GAME.players[x].saldo - amount.v
                /\ (/\ x \in Players(GAME)
                    /\ amount.ok
                    /\ amount.v > 0
                    /\ amount.v = GAME.players[x].saldo) =>
                     Committed(r) /\ r.game.players[x].saldo = 0

\* a player has just wagered all it held
C5_Witness ==
    /\ LastLog("Montepremi +")
    /\ GAME.pot = 2
    /\ \E u \in Players(GAME) :
          GAME.players[u].saldo = 0 /\ GAME.ledger[u][1].delta = -2

-----------------------------------------------------------------------------
(* C6: every rejected operation has no effect: whichever handler refuses a *)
(* request, for whichever reason, the participants, balances, ledgers,     *)
(* prizes, pot and activity log are as before, no id is issued and no      *)
(* broadcast is triggered.                                                 *)
C6_RejectionHasNoEffect ==
    \A r \in Outcomes :
        ~Committed(r) => r.game = GAME /\ r.issued = issued /\ ~r.resp.broadcast

\* a state with a cashier and a player in which requests are refused for a
\* wrong secret, an empty name, a wrong role, an amount that is not positive,
\* a wager above the balance, a pot exceeded, an unknown prize, a paid prize
\* and an invalid winner
C6_Witness ==
    /\ Cashiers(GAME) # {} /\ Players(GAME) # {}
    /\ \E r \in JoinOutcomes : RejectedAs(r, "PIN cassiere errato")
    /\ \E r \in JoinOutcomes : RejectedAs(r, "Nome mancante")
    /\ \E r \in PlayOutcomes : RejectedAs(r, "Solo giocatore")
    /\ \E r \in PlayOutcomes : RejectedAs(r, "Importo deve essere > 0")
    /\ \E r \in PlayOutcomes : RejectedAs(r, "Importo superiore al saldo disponibile")
    /\ \E r \in CreditOutcomes : RejectedAs(r, "Seleziona un giocatore")
    /\ \E r \in AddPrizeOutcomes :
          RejectedAs(r, "Premi (non pagati) eccedono il montepremi")
    /\ \E r \in AssignPrizeOutcomes : RejectedAs(r, "Premio non trovato")
    /\ \E r \in AssignPrizeOutcomes : RejectedAs(r, "Premio gia' pagato")
    /\ \E r \in AssignPrizeOutcomes : RejectedAs(r, "Vincitore non valido")
    /\ \E r \in ResetOutcomes : RejectedAs(r, "Non autorizzato")
    /\ \E r \in LogoutOutcomes : RejectedAs(r, "Solo cassiere")

-----------------------------------------------------------------------------
(* C7: a prize is paid out at most once: a committed AssignPrize marks the *)
(* prize paid with its winner; a paid prize stays as it is under every     *)
(* operation short of the reset that deletes it; and an AssignPrize by the *)
(* cashier on a paid prize, with any winner, fails as already paid and     *)
(* changes nothing.                                                        *)
C7_PrizePaidOnce ==
    /\ \A x \in Uids, d \in AssignPrizeData :
         \A r \in {cashier_assign_prize(GAME, issued, x, d)} :
            LET idx == int(d.index)
            IN  /\ Committed(r) =>
                     /\ ~GAME.prizes[idx.v + 1].paid
                     /\ r.game.prizes[idx.v + 1].paid
                     /\ r.game.prizes[idx.v + 1].winner_id = d.winner_id
                /\ (/\ x \in Cashiers(GAME)
                    /\ idx.ok
                    /\ idx.v >= 0
                    /\ idx.v < Len(GAME.prizes)
                    /\ GAME.prizes[idx.v + 1].paid) =>
                     /\ RejectedAs(r, "Premio gia' pagato")
                     /\ r.game = GAME
                     /\ ~r.resp.broadcast
    /\ \A r \in Outcomes :
         \A i \in 1..Len(GAME.prizes) :
            GAME.prizes[i].paid =>
                \/ r.game.prizes = <<>>
                \/ i <= Len(r.game.prizes) /\ r.game.prizes[i] = GAME.prizes[i]

\* a prize has just been paid to a player, who holds its amount
C7_Witness ==
    /\ LastLog("Premio assegnato")
    /\ \E i \in 1..Len(GAME.prizes) :
          /\ GAME.prizes[i].paid
          /\ GAME.prizes[i].winner_id \in Players(GAME)
          /\ GAME.players[GAME.prizes[i].winner_id].saldo >= GAME.prizes[i].amount

-----------------------------------------------------------------------------
(* C8: right after a committed ResetPlayers, from any reachable state, no  *)
(* player is registered and no ledger of a removed player remains, the     *)
(* prize list is empty, the pot is zero, the calling cashier's balance is  *)
(* zero and its ledger empty, and the cashier is still registered with the *)
(* same id and name.                                                       *)
C8_ResetPlayers ==
    \A x \in Uids :
        \A r \in {cashier_reset_players(GAME, issued, x)} :
            /\ Committed(r) <=> x \in Cashiers(GAME)
            /\ Committed(r) =>
                 /\ Players(r.game) = {}
                 /\ DOMAIN r.game.players = {x}
                 /\ DOMAIN r.game.ledger = {x}
                 /\ r.game.prizes = <<>>
                 /\ r.game.pot = 0
                 /\ r.game.players[x] =
                        [name |-> GAME.players[x].name, role |-> "cassiere", saldo |-> 0]
                 /\ r.game.ledger[x] = <<>>

\* the first participant is the cashier and has just reset the game: the two
\* players that had joined are gone
C8_Witness ==
    /\ LastLog("Reset")
    /\ issued = 3
    /\ DOMAIN GAME.players = {1}
    /\ DOMAIN GAME.ledger = {1}
    /\ GAME.players[1].saldo = 0

-----------------------------------------------------------------------------
(* C9: a Join as cashier with the right secret while a cashier is          *)
(* registered returns that cashier's id with the new name, leaves the      *)
(* number of participants as it was, keeps that cashier's balance and      *)
(* ledger, and leaves every other participant, the prizes and the pot      *)
(* unchanged.                                                              *)
C9_CashierReentry ==
    \A d \in JoinData :
        \A r \in {join(GAME, issued, d)} :
            (IsCashierJoin(d) /\ Cashiers(GAME) # {}) =>
                \A c \in Cashiers(GAME) :
                    /\ Committed(r)
                    /\ r.resp.body =
                           [id |-> c, name |-> strip(d.name[1]), role |-> "cassiere"]
                    /\ r.issued = issued
                    /\ DOMAIN r.game.players = DOMAIN GAME.players
                    /\ r.game.players[c] =
                           [GAME.players[c] EXCEPT !.name = strip(d.name[1])]
                    /\ \A u \in DOMAIN GAME.players \ {c} :
                           r.game.players[u] = GAME.players[u]
                    /\ r.game.ledger = GAME.ledger
                    /\ r.game.prizes = GAME.prizes
                    /\ r.game.pot = GAME.pot

\* the cashier, in debt and with a ledger, has just joined again as "Bob"
C9_Witness ==
    /\ LastLog("Cassiere rientrato")
    /\ \E c \in Cashiers(GAME) :
          /\ GAME.players[c].name = "Bob"
          /\ GAME.players[c].saldo < 0
          /\ GAME.ledger[c] # <<>>
    /\ Players(GAME) # {}
    /\ GAME.pot > 0

-----------------------------------------------------------------------------
(* C10: in every reachable state the projection for a registered player    *)
(* shows a balance on that viewer's own entry only, holds no paid prize,   *)
(* holds only entries of the viewer's own ledger, and gives the raw pot    *)
(* figure alone.                                                           *)
C10_PlayerProjection ==
    \A v \in Players(GAME) :
        \A view \in {public_state_for(GAME, v)} :
            /\ Len(view.players) = Cardinality(DOMAIN GAME.players)
            /\ \A i \in 1..Len(view.players) :
                 IF view.players[i].id = v
                 THEN view.players[i].saldo = <<GAME.players[v].saldo>>
                 ELSE view.players[i].saldo = <<>>
            /\ \A i \in 1..Len(view.prizes) : ~view.prizes[i].paid
            /\ Len(view.my_history) <= Len(GAME.ledger[v])
            /\ \A i \in 1..Len(view.my_history) :
                 view.my_history[i] = GAME.ledger[v][i]
            /\ DOMAIN view.pot = {"pot"}
            /\ view.pot.pot = GAME.pot

\* a player with a ledger views a state with another player and a cashier
\* whose balances are not zero, a paid prize and an unpaid one
C10_Witness ==
    \E v \in Players(GAME) :
        /\ GAME.ledger[v] # <<>>
        /\ \E u \in Players(GAME) \ {v} : GAME.players[u].saldo > 0
        /\ \E c \in Cashiers(GAME) : GAME.players[c].saldo < 0
        /\ \E i, j \in 1..Len(GAME.prizes) :
              GAME.prizes[i].paid /\ ~GAME.prizes[j].paid
        /\ Len(public_state_for(GAME, v).prizes) = 1

-----------------------------------------------------------------------------
(* C11: from a state with one cashier and one player, both at balance 0,   *)
(* and pot 0, Credit(cashier, player, 50) leaves the player at 50 and the  *)
(* cashier at -50; Wager(player, 30) then leaves the player at 20 and the  *)
(* pot at 30; DefinePrize(30) then records the first prize, unpaid;        *)
(* DefinePrize(1) is then rejected as exceeding the pot and changes        *)
(* nothing; AssignPrize(first prize, player) then leaves the player at 50  *)
(* and the pot at 0, the first prize paid with the player as its winner.   *)
C11_WorkedExample ==
    \A c \in Cashiers(GAME), p \in Players(GAME) :
        ( /\ Cashiers(GAME) = {c} /\ Players(GAME) = {p}
          /\ GAME.players[c].saldo = 0 /\ GAME.players[p].saldo = 0
          /\ GAME.pot = 0 )
        =>
        \A first \in {Len(GAME.prizes)} :
        \A r1 \in {cashier_credit(GAME, issued, c,
                                  [player_id |-> p, amount |-> <<100>>])} :
        \A r2 \in {player_play(r1.game, r1.issued, p, [amount |-> <<60>>])} :
        \A r3 \in {cashier_add_prize(r2.game, r2.issued, c,
                        [name |-> <<"Tombola">>, amount |-> <<60>>])} :
        \A r4 \in {cashier_add_prize(r3.game, r3.issued, c,
                        [name |-> <<"Tombola">>, amount |-> <<2>>])} :
        \A r5 \in {cashier_assign_prize(r4.game, r4.issued, c,
                        [index |-> <<2 * first>>, winner_id |-> p])} :
            /\ Committed(r1)
            /\ r1.game.players[p].saldo = 50 /\ r1.game.players[c].saldo = -50
            /\ Committed(r2)
            /\ r2.game.players[p].saldo = 20 /\ r2.game.pot = 30
            /\ Committed(r3)
            /\ Len(r3.game.prizes) = first + 1
            /\ r3.game.prizes[first + 1] =
                 [name |-> "Tombola", amount |-> 30, winner_id |-> None,
                  paid |-> FALSE]
            /\ RejectedAs(r4, "Premi (non pagati) eccedono il montepremi")
            /\ r4.game = r3.game
            /\ Committed(r5)
            /\ r5.game.players[p].saldo = 50 /\ r5.game.pot = 0
            /\ r5.game.players[c].saldo = -50
            /\ r5.game.prizes[first + 1] =
                 [name |-> "Tombola", amount |-> 30, winner_id |-> p,
                  paid |-> TRUE]

\* the state the example ends in: the cashier at -50, the only player back
\* at 50, the pot empty and the only prize, of 30, paid to that player
C11_Witness ==
    \E c \in Cashiers(GAME), p \in Players(GAME) :
        /\ Players(GAME) = {p}
        /\ GAME.players[c].saldo = -50 /\ GAME.players[p].saldo = 50
        /\ GAME.pot = 0
        /\ GAME.prizes = <<[name |-> "Tombola", amount |-> 30, winner_id |-> p,
                            paid |-> TRUE]>>

-----------------------------------------------------------------------------
-----------------------------------------------------------------------------
(* C13: no operation commits its mutation while the broadcast of another   *)
(* operation is still sending.                                             *)
C13_NoMutationDuringBroadcast == [][version' # version => tasks = <<>>]_vars

-----------------------------------------------------------------------------
(* C14: when the broadcast of an operation ends, every channel that was    *)
(* connected when it began, is still connected, is not wedged and is on    *)
(* the dead list of no broadcast has been sent a snapshot computed after   *)
(* that operation committed.                                               *)

\* the channels a broadcast that has just ended owed a snapshot: connected
\* when it began and since, healthy, and sent no snapshot in between
Unserved(ended) ==
    {c \in ended.owed \cap Range(clients) :
        /\ c \notin wedged
        /\ c \notin ended.dead
        /\ \A j \in DOMAIN tasks : c \notin tasks[j].dead}

C14_BroadcastServesEveryChannel ==
    \A i \in DOMAIN returned : Unserved(returned[i]) = {}

-----------------------------------------------------------------------------
(* C15: when a send of a broadcast has failed, the broadcast has still, by *)
(* its end, had a snapshot sent to every other channel that stayed         *)
(* connected, and at its end the failed channel is in neither the client   *)
(* list nor the bindings.                                                  *)
C15_FailedSendIsIsolated ==
    \A i \in DOMAIN returned :
        returned[i].dead # {} =>
           /\ Unserved(returned[i]) = {}
           /\ returned[i].dead \cap Range(clients) = {}
           /\ returned[i].dead \cap DOMAIN ws_user = {}

-----------------------------------------------------------------------------
(* C16: a channel that is owed a snapshot by a broadcast whose current     *)
(* send is to a wedged channel is eventually sent one, or leaves.          *)

\* c is connected and waits for a broadcast that waits on a wedged channel
Stalled(c) ==
    /\ c \in Range(clients) \ wedged
    /\ \E k \in DOMAIN tasks : c \in tasks[k].owed /\ tasks[k].ws \in wedged

C16_WedgedChannelDoesNotStall ==
    \A c \in 1..MaxChannels : Stalled(c) ~> ~Stalled(c)

-----------------------------------------------------------------------------
(* C17: a snapshot put on a channel that has sent an auth message is the   *)
(* projection for the identity of its last auth message, the anonymous     *)
(* projection when that identity is not registered; a frame that is not an *)
(* auth message leaves the bindings as they are and sends nothing.         *)
C17_BoundProjection ==
    /\ \A i \in DOMAIN wire :
         wire[i].ws \in DOMAIN claimed =>
            wire[i].text =
               IF claimed[wire[i].ws] \in DOMAIN GAME.players
               THEN public_state_for(GAME, claimed[wire[i].ws])
               ELSE public_state_for(GAME, None)
    /\ \A ws \in Range(clients), msg \in WsMessages :
         msg.auth = <<>> =>
            ws_receive(GAME, ws_user, ws, msg) = [ws_user |-> ws_user, sent |-> <<>>]

\* a broadcast sends to a channel bound to a registered participant a
\* snapshot that is not the anonymous one, and another channel is bound to
\* an identity that is not registered
C17_Witness ==
    /\ wire # <<>>
    /\ wire[1].ws \in DOMAIN claimed
    /\ claimed[wire[1].ws] \in DOMAIN GAME.players
    /\ \E k \in DOMAIN tasks : tasks[k].ws = wire[1].ws
    /\ wire[1].text # public_state_for(GAME, None)
    /\ \E c \in DOMAIN claimed : claimed[c] \notin DOMAIN GAME.players

-----------------------------------------------------------------------------
(* C18: in every reachable state each ledger holds at most LedgerCap       *)
(* entries and the log at most LogCap; every committed operation puts its  *)
(* one new log entry at the front, and a ledger it appends to gets the new *)
(* entry at the front; the entries that were there follow in their order,  *)
(* and only the oldest is dropped, and only when the sequence was full.    *)

\* the kinds of log entry each handler writes
LogKinds(op) ==
    CASE op = "join" -> {"Cassiere rientrato", "e' entrato"}
      [] op = "play" -> {"Montepremi +"}
      [] op = "credit" -> {"Accredito"}
      [] op = "add_prize" -> {"Premio definito"}
      [] op = "assign_prize" -> {"Premio assegnato"}
      [] op = "reset_players" -> {"Reset"}
      [] op = "logout" -> {"Cassiere uscito"}

RECURSIVE SumDeltas(_)
SumDeltas(l) == IF l = <<>> THEN 0 ELSE l[1].delta + SumDeltas(Tail(l))

\* new is old with one entry put in front, cut to cap entries
PushedOnto(new, old, cap) ==
    /\ Len(new) = (IF Len(old) < cap THEN Len(old) + 1 ELSE cap)
    /\ \A i \in 2..Len(new) : new[i] = old[i - 1]

-----------------------------------------------------------------------------
(* C19: a committed CashierLogout removes the cashier and its ledger and   *)
(* leaves every player, every other ledger, the prizes and the pot as they *)
(* were; no cashier is registered afterwards, and a Join as cashier with   *)
(* the right pin, whenever no cashier is registered, creates a participant *)
(* with an id never issued before, balance 0 and an empty ledger.          *)
C19_CashierLogout ==
    /\ \A x \in Uids :
         \A r \in {cashier_logout(GAME, issued, x)} :
            Committed(r) =>
              /\ x \in Cashiers(GAME)
              /\ DOMAIN r.game.players = DOMAIN GAME.players \ {x}
              /\ DOMAIN r.game.ledger = DOMAIN GAME.ledger \ {x}
              /\ \A u \in DOMAIN r.game.players :
                   r.game.players[u] = GAME.players[u]
              /\ \A u \in DOMAIN r.game.ledger :
                   r.game.ledger[u] = GAME.ledger[u]
              /\ r.game.prizes = GAME.prizes
              /\ r.game.pot = GAME.pot
              /\ Cashiers(r.game) = {}
              /\ \A d \in JoinData :
                   IsCashierJoin(d) =>
                     \A j \in {join(r.game, r.issued, d)} :
                        /\ Committed(j)
                        /\ j.resp.body.id # x
                        /\ j.resp.body.id \notin 0..issued
                        /\ Cashiers(j.game) = {j.resp.body.id}
                        /\ j.game.players[j.resp.body.id].saldo = 0
                        /\ j.game.ledger[j.resp.body.id] = <<>>
    /\ Cashiers(GAME) = {} =>
         \A d \in JoinData :
            IsCashierJoin(d) =>
              \A j \in {join(GAME, issued, d)} :
                 /\ Committed(j)
                 /\ j.resp.body.id \notin 0..issued
                 /\ Cashiers(j.game) = {j.resp.body.id}
                 /\ j.game.players[j.resp.body.id].saldo = 0
                 /\ j.game.ledger[j.resp.body.id] = <<>>

\* a cashier has just joined, at balance 0, a game in which a player holds
\* coins that an earlier cashier, since logged out, had credited
C19_Witness ==
    /\ LastLog("e' entrato")
    /\ \E c \in Cashiers(GAME) :
         /\ GAME.players[c].saldo = 0
         /\ GAME.ledger[c] = <<>>
         /\ \E p \in Players(GAME) : p < c /\ GAME.players[p].saldo > 0

-----------------------------------------------------------------------------
(* C20: every operation but ResetPlayers keeps the prizes there are, in    *)
(* their places, and adds at most one at the end; an unpaid prize changes  *)
(* only by AssignPrize, which sets paid and the winner and nothing else,   *)
(* on one prize; a paid prize is left exactly as it is.                    *)
C20_PrizesAppendOnly ==
    \A r \in Outcomes :
        r.resp.op # "reset_players" =>
          /\ Len(r.game.prizes) >= Len(GAME.prizes)
          /\ Len(r.game.prizes) <= Len(GAME.prizes) + 1
          /\ Len(r.game.prizes) > Len(GAME.prizes) =>
                /\ r.resp.op = "add_prize"
                /\ ~r.game.prizes[Len(r.game.prizes)].paid
          /\ \A i \in 1..Len(GAME.prizes) :
                \/ r.game.prizes[i] = GAME.prizes[i]
                \/ /\ r.resp.op = "assign_prize" /\ Committed(r)
                   /\ ~GAME.prizes[i].paid /\ GAME.prizes[i].winner_id = None
                   /\ r.game.prizes[i].paid
                   /\ r.game.prizes[i].winner_id \in Players(GAME)
                   /\ r.game.prizes[i].name = GAME.prizes[i].name
                   /\ r.game.prizes[i].amount = GAME.prizes[i].amount
                   /\ \A k \in 1..Len(GAME.prizes) \ {i} :
                        r.game.prizes[k] = GAME.prizes[k]

\* a prize was defined after an earlier one had been paid: the paid prize
\* is still first and the new one, unpaid, follows it
C20_Witness ==
    /\ LastLog("Premio definito")
    /\ Len(GAME.prizes) = 2
    /\ GAME.prizes[1].paid /\ GAME.prizes[1].winner_id \in Players(GAME)
    /\ ~GAME.prizes[2].paid

-----------------------------------------------------------------------------
\* the identities a snapshot may be computed for: none (0), every id the
\* engine can issue, and one it never issues
Viewers == Uids \cup {Stranger}

\* the sum of the amounts of the paid prizes
RECURSIVE PaidFrom(_, _)
PaidFrom(G, i) ==
    IF i > Len(G.prizes) THEN 0
    ELSE (IF G.prizes[i].paid THEN G.prizes[i].amount ELSE 0) + PaidFrom(G, i + 1)

(* C21: a viewer with no identity, or with one that is not registered now  *)
(* (never issued, or removed by ResetPlayers or CashierLogout), gets every *)
(* participant listed with a null balance, no prize, no history and a pot  *)
(* block holding the pot alone; a viewer that is not the registered        *)
(* cashier sees no balance but its own, no paid prize and no total; the    *)
(* registered cashier gets every balance, every prize and the totals.      *)
C21_AnonymousProjection ==
    \A v \in Viewers :
        \A s \in {public_state_for(GAME, v)} :
            /\ {s.players[i].id : i \in 1..Len(s.players)} = DOMAIN GAME.players
            /\ v \notin DOMAIN GAME.players =>
                 /\ \A i \in 1..Len(s.players) : s.players[i].saldo = <<>>
                 /\ s.prizes = <<>>
                 /\ s.my_history = <<>>
                 /\ s.pot = [pot |-> GAME.pot]
            /\ v \notin Cashiers(GAME) =>
                 /\ \A i \in 1..Len(s.players) :
                      s.players[i].saldo # <<>> => s.players[i].id = v
                 /\ \A i \in 1..Len(s.prizes) : ~s.prizes[i].paid
                 /\ DOMAIN s.pot = {"pot"}
            /\ v \in Cashiers(GAME) =>
                 /\ \A i \in 1..Len(s.players) :
                      s.players[i].saldo = <<GAME.players[s.players[i].id].saldo>>
                 /\ s.prizes = GAME.prizes
                 /\ s.pot = [pot |-> GAME.pot,
                             prizes_defined_total |-> UnpaidSum(GAME),
                             prizes_paid_total |-> PaidFrom(GAME, 1),
                             pot_remaining |-> GAME.pot - UnpaidSum(GAME)]

\* the cashier has logged out of a game in which a player holds coins, a
\* prize is paid and another is not: its id, no longer registered, is a
\* viewer like any stranger
C21_Witness ==
    /\ LastLog("Cassiere uscito")
    /\ \E v \in 1..issued :
         /\ v \notin DOMAIN GAME.players
         /\ public_state_for(GAME, v) = public_state_for(GAME, None)
    /\ \E p \in Players(GAME) : GAME.players[p].saldo > 0
    /\ \E i, k \in 1..Len(GAME.prizes) : GAME.prizes[i].paid /\ ~GAME.prizes[k].paid

-----------------------------------------------------------------------------
\* the request names a prize that exists and is unpaid, and a registered
\* player as its winner
OnUnpaidPrizeForPlayer(d) ==
    /\ d.index # <<>> /\ d.index[1] >= 0
    /\ d.index[1] \div 2 < Len(GAME.prizes)
    /\ ~GAME.prizes[d.index[1] \div 2 + 1].paid
    /\ d.winner_id \in Players(GAME)

(* C22: the pot covers every unpaid prize taken alone; no AssignPrize is   *)
(* answered "Montepremi insufficiente", and the cashier's AssignPrize of   *)
(* an existing unpaid prize to a registered player commits, paying the     *)
(* prize's amount out of the pot.                                          *)
C22_AssignNeverShortOfPot ==
    /\ \A i \in 1..Len(GAME.prizes) :
         ~GAME.prizes[i].paid => GAME.pot >= GAME.prizes[i].amount
    /\ \A r \in AssignPrizeOutcomes :
         ~RejectedAs(r, "Montepremi insufficiente per pagare questo premio")
    /\ \A x \in Cashiers(GAME) : \A d \in AssignPrizeData :
         OnUnpaidPrizeForPlayer(d) =>
           \A r \in {cashier_assign_prize(GAME, issued, x, d)} :
              /\ Committed(r)
              /\ r.game.pot =
                   GAME.pot - GAME.prizes[d.index[1] \div 2 + 1].amount
              /\ r.game.pot >= 0

\* a prize has been paid and the one still unpaid is worth the whole pot
\* that is left: the cashier can assign it to the player who is registered
C22_Witness ==
    /\ LastLog("Premio assegnato")
    /\ Cashiers(GAME) # {} /\ Players(GAME) # {}
    /\ \E i \in 1..Len(GAME.prizes) :
         /\ ~GAME.prizes[i].paid
         /\ GAME.prizes[i].amount = GAME.pot
    /\ \E d \in AssignPrizeData : OnUnpaidPrizeForPlayer(d)

-----------------------------------------------------------------------------
\* the whole number of coins a request asks for (0 when it names none)
Coins(raw) == IF raw = <<>> \/ raw[1] < 0 THEN 0 ELSE raw[1] \div 2

(* C23: a committed Credit comes from the registered cashier, names a      *)
(* registered player and a positive amount, adds the amount to the         *)
(* player's balance and takes it from the cashier's, puts one entry in     *)
(* front of the ledger of each, and leaves the pot, the prizes and every   *)
(* other participant and ledger as they were; the cashier's Credit of a    *)
(* positive amount to a player commits whatever the cashier's balance is;  *)
(* a Credit to an id that is not registered, or to the cashier, is         *)
(* rejected and changes nothing.                                           *)
C23_CreditEffect ==
    \A x \in Uids : \A d \in CreditData :
        \A r \in {cashier_credit(GAME, issued, x, d)} :
            /\ Committed(r) =>
                 /\ x \in Cashiers(GAME)
                 /\ d.player_id \in Players(GAME)
                 /\ Coins(d.amount) > 0
                 /\ r.game.players[d.player_id] =
                      [GAME.players[d.player_id] EXCEPT !.saldo = @ + Coins(d.amount)]
                 /\ r.game.players[x] =
                      [GAME.players[x] EXCEPT !.saldo = @ - Coins(d.amount)]
                 /\ PushedOnto(r.game.ledger[d.player_id],
                               GAME.ledger[d.player_id], LedgerCap)
                 /\ r.game.ledger[d.player_id][1].delta = Coins(d.amount)
                 /\ PushedOnto(r.game.ledger[x], GAME.ledger[x], LedgerCap)
                 /\ r.game.ledger[x][1].delta = -Coins(d.amount)
                 /\ r.game.pot = GAME.pot
                 /\ r.game.prizes = GAME.prizes
                 /\ DOMAIN r.game.players = DOMAIN GAME.players
                 /\ DOMAIN r.game.ledger = DOMAIN GAME.ledger
                 /\ \A u \in DOMAIN GAME.players \ {x, d.player_id} :
                      /\ r.game.players[u] = GAME.players[u]
                      /\ r.game.ledger[u] = GAME.ledger[u]
            /\ (x \in Cashiers(GAME) /\ d.player_id \in Players(GAME)
                  /\ Coins(d.amount) > 0) => Committed(r)
            /\ d.player_id \notin Players(GAME) =>
                 /\ ~Committed(r)
                 /\ r.game = GAME
                 /\ x \in Cashiers(GAME) =>
                      IF d.player_id \in DOMAIN GAME.players
                      THEN RejectedAs(r, "Seleziona un giocatore")
                      ELSE RejectedAs(r, "Giocatore non valido")

\* the cashier, already in debt, has credited a player again and is
\* further below zero; another participant is registered besides the two
C23_Witness ==
    /\ LastLog("Accredito")
    /\ \E c \in Cashiers(GAME) :
         /\ GAME.players[c].saldo = -MaxDebt
         /\ Len(GAME.ledger[c]) = 2
         /\ GAME.ledger[c][1].delta < 0 /\ GAME.ledger[c][2].delta < 0
    /\ Cardinality(Players(GAME)) >= 2

-----------------------------------------------------------------------------
(* C24: the ids that have a ledger are the ids of the registered           *)
(* participants, now and after every operation; a participant that Join    *)
(* registers starts with an empty ledger; ResetPlayers and CashierLogout   *)
(* remove the ledger of every participant they remove, and of no other;    *)
(* reading the history of a registered viewer creates no ledger.           *)
C24_LedgerIdsAreParticipantIds ==
    /\ DOMAIN GAME.ledger = DOMAIN GAME.players
    /\ \A r \in Outcomes :
         /\ DOMAIN r.game.ledger = DOMAIN r.game.players
         /\ \A u \in DOMAIN r.game.players \ DOMAIN GAME.players :
              r.resp.op = "join" /\ r.game.ledger[u] = <<>>
         /\ DOMAIN GAME.players \ DOMAIN r.game.players # {} =>
              /\ r.resp.op \in {"reset_players", "logout"}
              /\ DOMAIN GAME.ledger \ DOMAIN r.game.ledger =
                   DOMAIN GAME.players \ DOMAIN r.game.players
    /\ \A v \in DOMAIN GAME.players : ensure_ledger(GAME, v) = GAME

\* the cashier has logged out after crediting a player: its id has been
\* issued and has no ledger any more, while the player keeps the entry of
\* the credit
C24_Witness ==
    /\ LastLog("Cassiere uscito")
    /\ Cashiers(GAME) = {}
    /\ \E v \in 1..issued : v \notin DOMAIN GAME.ledger
    /\ \E p \in Players(GAME) : GAME.ledger[p] # <<>>

-----------------------------------------------------------------------------
(* C25: the balance of a cashier is never above zero.  An operation that   *)
(* lowers it is a Credit; one that raises it is a ResetPlayers, which      *)
(* leaves it at zero; a cashier that Join registers starts at zero; and a  *)
(* Credit or an AssignPrize that names a cashier as target or winner is    *)
(* rejected and changes nothing.                                           *)
C25_CashierNeverAboveZero ==
    /\ \A c \in Cashiers(GAME) : GAME.players[c].saldo <= 0
    /\ \A r \in Outcomes :
         /\ \A c \in Cashiers(r.game) :
              IF c \in DOMAIN GAME.players
              THEN /\ c \in Cashiers(GAME)
                   /\ r.game.players[c].saldo < GAME.players[c].saldo =>
                        r.resp.op = "credit"
                   /\ r.game.players[c].saldo > GAME.players[c].saldo =>
                        r.resp.op = "reset_players" /\ r.game.players[c].saldo = 0
              ELSE r.resp.op = "join" /\ r.game.players[c].saldo = 0
    /\ \A x \in Uids : \A c \in Cashiers(GAME) :
         /\ \A d \in CreditData :
              d.player_id = c =>
                \A r \in {cashier_credit(GAME, issued, x, d)} :
                   ~Committed(r) /\ r.game = GAME
         /\ \A d \in AssignPrizeData :
              d.winner_id = c =>
                \A r \in {cashier_assign_prize(GAME, issued, x, d)} :
                   ~Committed(r) /\ r.game = GAME

\* a prize has been paid to a player while the cashier, who had credited
\* the coins that were wagered, is below zero
C25_Witness ==
    /\ LastLog("Premio assegnato")
    /\ \E c \in Cashiers(GAME) : GAME.players[c].saldo < 0
    /\ \E i \in 1..Len(GAME.prizes) :
         GAME.prizes[i].paid /\ GAME.prizes[i].winner_id \in Players(GAME)

-----------------------------------------------------------------------------
\* the balance of u is the sum of the deltas its ledger holds
Balanced(G, u) == G.players[u].saldo = SumDeltas(G.ledger[u])

(* C26: a participant whose ledger is below the cap, hence has lost no     *)
(* entry, has a balance equal to the sum of the deltas of its ledger; an   *)
(* operation on such a participant, which drops no entry, keeps this       *)
(* equality, so it also holds of a ledger that has just reached the cap;   *)
(* a participant that Join registers, and the cashier after ResetPlayers,  *)
(* have balance 0 and an empty ledger.                                     *)
C26_BalanceIsSumOfLedger ==
    /\ \A u \in DOMAIN GAME.players :
         Len(GAME.ledger[u]) < LedgerCap => Balanced(GAME, u)
    /\ \A r \in Outcomes :
         \A u \in DOMAIN r.game.players :
            /\ u \notin DOMAIN GAME.players =>
                 r.game.players[u].saldo = 0 /\ r.game.ledger[u] = <<>>
            /\ (u \in DOMAIN GAME.players /\ Balanced(GAME, u)
                  /\ Len(GAME.ledger[u]) < LedgerCap) =>
                 Balanced(r.game, u)
            /\ (r.resp.op = "reset_players" /\ Committed(r)) =>
                 r.game.players[u].saldo = 0 /\ r.game.ledger[u] = <<>>

\* the cashier has come back under its id, two coins below zero with the
\* one entry of the credit; the player it credited has wagered one coin
\* and its ledger, at the cap with both entries, adds up to its balance
C26_Witness ==
    /\ LastLog("Cassiere rientrato")
    /\ \E c \in Cashiers(GAME) :
         /\ GAME.players[c].saldo = -2
         /\ Len(GAME.ledger[c]) = 1
         /\ Balanced(GAME, c)
    /\ \E p \in Players(GAME) :
         /\ Len(GAME.ledger[p]) = LedgerCap
         /\ GAME.ledger[p][1].delta < 0 /\ GAME.ledger[p][2].delta > 0
         /\ GAME.players[p].saldo > 0
         /\ Balanced(GAME, p)

-----------------------------------------------------------------------------
\* every prize of G has a positive amount, is paid exactly when it names a
\* winner, and names as winner a registered player
PrizesSound(G) ==
    \A i \in 1..Len(G.prizes) :
        /\ G.prizes[i].amount > 0
        /\ G.prizes[i].paid <=> G.prizes[i].winner_id # None
        /\ G.prizes[i].paid => G.prizes[i].winner_id \in Players(G)

(* C27: every prize has a positive amount, is paid exactly when its winner *)
(* is not null, and, when paid, has as winner the id of a registered       *)
(* participant whose role is player; this is so after every operation,     *)
(* and an operation that removes a player, which only ResetPlayers does,   *)
(* leaves no prize.                                                        *)
C27_PrizesSound ==
    /\ PrizesSound(GAME)
    /\ \A r \in Outcomes :
         /\ PrizesSound(r.game)
         /\ Players(GAME) \ Players(r.game) # {} =>
              /\ r.resp.op = "reset_players"
              /\ r.game.prizes = <<>>

\* a second player has joined after the first was paid a prize; another
\* prize is defined and unpaid
C27_Witness ==
    /\ LastLog("e' entrato")
    /\ Cardinality(Players(GAME)) = 2
    /\ \E i, k \in 1..Len(GAME.prizes) :
         /\ GAME.prizes[i].paid
         /\ GAME.prizes[i].winner_id \in Players(GAME)
         /\ \E q \in Players(GAME) : q > GAME.prizes[i].winner_id
         /\ ~GAME.prizes[k].paid /\ GAME.prizes[k].winner_id = None

====
